---- MODULE Spec2Model ----
(***************************************************************************)
(* The gesture engine and the transform facade of camera.js                *)
(* (XML3D.StandardCamera), as a state machine.                             *)
(*                                                                         *)
(* Units.  A pointer coordinate counts steps of width/(4*rotateSpeed)      *)
(* pixels on a square viewport (width = height), so that one step of       *)
(* pointer motion is a quarter turn in ROTATE, LOOKAROUND and ORBIT        *)
(* (rotateSpeed * dx * 2*PI / width = PI/2).  The configuration is         *)
(* rotateSpeed = 1.5, zoomSpeed = 6 and a vertical field of view with      *)
(* tan(fov/2) = 1/2, for which one step of pointer motion is one world     *)
(* unit in TRANSLATE and in DOLLY.  With these, every pose the engine      *)
(* reaches from an axis-aligned pose is exact: positions are integer       *)
(* vectors, orientations are rotation matrices with entries in {-1,0,1}    *)
(* (the rotation a quaternion stands for; q and -q are the same pose).     *)
(***************************************************************************)
EXTENDS Integers, Sequences, FiniteSets, TLC

\* ------------------------------------------------------------ bounds
\* pointer coordinates are 0..MaxCoord
MaxCoord == 1
\* a touch list holds at most MaxTouches touches
MaxTouches == 4
\* mouse buttons are 0..MaxButton
MaxButton == 3
\* a behaviour holds at most MaxEvents input events
MaxEvents == 3

\* ------------------------------------------------------------ vectors
Undef == <<>>

Vec(x, y, z) == <<x, y, z>>
VAdd(a, b) == <<a[1] + b[1], a[2] + b[2], a[3] + b[3]>>
VSub(a, b) == <<a[1] - b[1], a[2] - b[2], a[3] - b[3]>>
VScale(a, k) == <<a[1] * k, a[2] * k, a[3] * k>>
VDot(a, b) == a[1] * b[1] + a[2] * b[2] + a[3] * b[3]
VCross(a, b) ==
    <<a[2] * b[3] - a[3] * b[2], a[3] * b[1] - a[1] * b[3], a[1] * b[2] - a[2] * b[1]>>
Abs(n) == IF n < 0 THEN -n ELSE n

\* ------------------------------------------------------------ rotations
\* a rotation is the matrix <<row1, row2, row3>> of the unit quaternion; a matrix
\* whose rows have the length s > 1 stands for the rotation with the entries / s
Identity == <<Vec(1, 0, 0), Vec(0, 1, 0), Vec(0, 0, 1)>>
Scale(m) ==
    LET n2 == VDot(m[1], m[1])
    IN  IF n2 = 1 THEN 1 ELSE CHOOSE s \in 2..n2 : s * s = n2
\* the unit vector of v, which has the length s
Unit(v, s) == <<v[1] \div s, v[2] \div s, v[3] \div s>>
\* v.transformQuat(q)
MatVec(m, v) == <<VDot(m[1], v), VDot(m[2], v), VDot(m[3], v)>>
MatCol(m, j) == <<m[1][j], m[2][j], m[3][j]>>
\* a.mul(b), a.multiply(b): the rotation b followed by the rotation a
MatMul(a, b) ==
    [i \in 1..3 |-> <<VDot(a[i], MatCol(b, 1)), VDot(a[i], MatCol(b, 2)), VDot(a[i], MatCol(b, 3))>>]
Transpose(m) == <<MatCol(m, 1), MatCol(m, 2), MatCol(m, 3)>>

\* the vector v turned by k quarter turns about the unit axis a (Rodrigues)
Turn(a, k, v) ==
    CASE k % 4 = 0 -> v
      [] k % 4 = 1 -> VAdd(VScale(a, VDot(a, v)), VCross(a, v))
      [] k % 4 = 2 -> VSub(VScale(a, 2 * VDot(a, v)), v)
      [] k % 4 = 3 -> VSub(VScale(a, VDot(a, v)), VCross(a, v))

\* XML3D.Quat.fromAxisAngle(axis, k * PI/2)
fromAxisAngle(a, k) ==
    Transpose(<<Turn(a, k, Vec(1, 0, 0)), Turn(a, k, Vec(0, 1, 0)), Turn(a, k, Vec(0, 0, 1))>>)

\* ------------------------------------------------------------ ray casts
\* a / b for a divisor that divides a (the rays below have |direction.y| = 1)
Quot(a, b) == IF b < 0 THEN -(a \div (-b)) ELSE a \div b

\* the hit point of xml3d.getElementByRay when the ray hits nothing
NaNVec == <<0>>

intersect_xz_plane(ray) ==
    IF ray.direction[2] = 0 /\ ray.origin[2] = 0 THEN ray.origin
    ELSE IF ray.direction[2] >= 0 \/ ray.origin[2] <= 0 THEN Undef
    ELSE LET t == -Quot(ray.origin[2], ray.direction[2])
         IN  VAdd(ray.origin, VScale(ray.direction, t))

\* the point of the whole line through the ray, also behind its origin
intersect_line_plane(ray, plane_normal, plane_origin) ==
    LET divisor == VDot(ray.direction, plane_normal)
        factor == VDot(VSub(plane_origin, ray.origin), plane_normal)
    IN  IF divisor = 0 THEN (IF factor = 0 THEN ray.origin ELSE Undef)
        ELSE VAdd(ray.origin, VScale(ray.direction, Quot(factor, divisor)))

intersect_ray_plane(ray, plane_normal, plane_origin) ==
    LET divisor == VDot(ray.direction, plane_normal)
        factor == VDot(VSub(plane_origin, ray.origin), plane_normal)
    IN  IF divisor = 0 THEN (IF factor = 0 THEN ray.origin ELSE Undef)
        ELSE LET d == Quot(factor, divisor)
             IN  IF d < 0 THEN Undef
                 ELSE VAdd(ray.origin, VScale(ray.direction, d))

\* options.dragging = opt.dragging || true
OptionsDragging(opt) == opt \/ TRUE

\* hitpoint is what the host's getElementByRay wrote for this ray
intersectScene(ray, hitpoint, dragging) ==
    IF dragging /\ hitpoint # NaNVec THEN hitpoint ELSE intersect_xz_plane(ray)

\* ------------------------------------------------------------ actions
NO_ACTION == "null"
\* what indexing a table outside its entries gives
Undefined == "undefined"
Actions == {"TRANSLATE", "DOLLY", "ROTATE", "LOOKAROUND", "PANNING", "ORBIT"}
\* !this.action
Idle(a) == a \in {NO_ACTION, Undefined}

HasStart(a) == a \in {"ROTATE", "PANNING", "ORBIT"}
HasMove(a) == a \in Actions
HasEnd(a) == FALSE

ModeNames == {"examine", "panning", "lookaround"}
\* tables in which two fingers dolly in examine mode
MODES_twoFingers ==
    [examine |-> [mouse |-> <<"ROTATE", "TRANSLATE", "DOLLY">>,
                  touch |-> <<"ROTATE", "DOLLY", NO_ACTION>>],
     panning |-> [mouse |-> <<"PANNING", "DOLLY", "ORBIT">>,
                  touch |-> <<"PANNING", NO_ACTION, NO_ACTION>>],
     lookaround |-> [mouse |-> <<"LOOKAROUND", "TRANSLATE", "DOLLY">>,
                     touch |-> <<"LOOKAROUND", NO_ACTION, NO_ACTION>>]]

MODES ==
    [examine |-> [mouse |-> <<"ROTATE", "TRANSLATE", "DOLLY">>,
                  touch |-> <<"ROTATE", NO_ACTION, NO_ACTION>>],
     panning |-> [mouse |-> <<"PANNING", "DOLLY", "ORBIT">>,
                  touch |-> <<"PANNING", NO_ACTION, NO_ACTION>>],
     lookaround |-> [mouse |-> <<"LOOKAROUND", "TRANSLATE", "DOLLY">>,
                     touch |-> <<"LOOKAROUND", NO_ACTION, NO_ACTION>>]]

\* a table read with the index taken modulo its length
At_wrap(table, i) == table[(i % Len(table)) + 1]
\* table[i] of a JavaScript array (indices from 0)
At(table, i) == IF i >= 0 /\ i < Len(table) THEN table[i + 1] ELSE Undefined

\* ------------------------------------------------------------ transform facade
\* TransformInterface getters
Direction(orientation) == MatVec(orientation, Vec(0, 0, -1))
UpVector(orientation) == MatVec(orientation, Vec(0, 1, 0))
RightVector(orientation) == MatVec(orientation, Vec(1, 0, 0))

inverseTransformOf(orientation, vec) == MatVec(orientation, vec)

\* a pose: [position, orientation, threw]; threw says the call ended in an error
Pose(p, o) == [position |-> p, orientation |-> o, threw |-> FALSE]

translate(pose, t0) == [pose EXCEPT !.position = VAdd(pose.position, t0)]

rotate(pose, q0) == [pose EXCEPT !.orientation = MatMul(pose.orientation, q0)]

\* the position turned by q0 itself about p0, not by q0 as the camera sees it
rotateAroundPoint_world(pose, q0, p0) ==
    IF p0 = Undef
    THEN [pose EXCEPT !.orientation = MatMul(pose.orientation, q0), !.threw = TRUE]
    ELSE [pose EXCEPT !.orientation = MatMul(pose.orientation, q0),
                      !.position = VAdd(MatVec(q0, VSub(pose.position, p0)), p0)]

\* The orientation is written first.  The rotation about inverseTransformOf(axis of
\* q0) by the angle of q0 is q0 conjugated by the orientation just written.
\* position.subtract(p0) fails on an undefined p0, after the orientation was written.
rotateAroundPoint(pose, q0, p0) ==
    LET o == MatMul(pose.orientation, q0)
        tmpQuat == MatMul(MatMul(o, q0), Transpose(o))
    IN  IF p0 = Undef
        THEN [pose EXCEPT !.orientation = o, !.threw = TRUE]
        ELSE [pose EXCEPT !.orientation = o,
                          !.position = VAdd(MatVec(tmpQuat, VSub(pose.position, p0)), p0)]

\* both rotations applied whatever the view they give
lookAround_unguarded(pose, rotSide, rotUp, upVector) ==
    [pose EXCEPT !.orientation = MatMul(MatMul(rotSide, rotUp), pose.orientation)]

\* |upVector . tmp| <= 0.95
lookAround(pose, rotSide, rotUp, upVector) ==
    LET check == MatMul(rotUp, pose.orientation)
        tmp == MatVec(check, Vec(0, 0, -1))
        rot == IF 100 * Abs(VDot(upVector, tmp)) <= 95 THEN MatMul(rotSide, rotUp) ELSE rotSide
    IN  [pose EXCEPT !.orientation = MatMul(rot, pose.orientation)]

\* ------------------------------------------------------------ action handlers
\* st is this.state, [examinePoint, dragPoint]; ray and hitpoint are the host's
\* generateRay(x, y) and getElementByRay(ray)
\* a start that picks the examine point whatever updateExaminePoint says
ROTATE_start_always(st, opts, ray, hitpoint) ==
    [st EXCEPT !.examinePoint = intersectScene(ray, hitpoint, opts.dragging)]

ROTATE_start(st, opts, ray, hitpoint) ==
    IF ~opts.updateExaminePoint THEN st
    ELSE [st EXCEPT !.examinePoint = intersectScene(ray, hitpoint, opts.dragging)]

PANNING_start(st, opts, ray, hitpoint) ==
    [st EXCEPT !.dragPoint = intersectScene(ray, hitpoint, opts.dragging)]

ORBIT_start(st, opts, ray, hitpoint) ==
    IF ~opts.updateExaminePoint THEN st
    ELSE [st EXCEPT !.examinePoint = intersectScene(ray, hitpoint, opts.dragging)]

ActionStart(a, st, opts, ray, hitpoint) ==
    CASE a = "ROTATE" -> ROTATE_start(st, opts, ray, hitpoint)
      [] a = "PANNING" -> PANNING_start(st, opts, ray, hitpoint)
      [] a = "ORBIT" -> ORBIT_start(st, opts, ray, hitpoint)
      [] OTHER -> st

TRANSLATE_move(pose, dx, dy) ==
    translate(pose, inverseTransformOf(pose.orientation, Vec(-dx, dy, 0)))

DOLLY_move(pose, dy) ==
    translate(pose, inverseTransformOf(pose.orientation, Vec(0, 0, dy)))

ROTATE_move(pose, st, dx, dy) ==
    LET mx == fromAxisAngle(Vec(0, 1, 0), -dx)
        my == fromAxisAngle(Vec(1, 0, 0), -dy)
    IN  rotateAroundPoint(pose, MatMul(mx, my), st.examinePoint)

LOOKAROUND_move(pose, opts, dx, dy) ==
    LET cross == VCross(opts.upVector, Direction(pose.orientation))
        mx == fromAxisAngle(opts.upVector, -dx)
        my == fromAxisAngle(cross, dy)
    IN  lookAround(pose, mx, my, opts.upVector)

\* the camera moved by the way from the ray's origin to the drag point
PANNING_move_origin(pose, st, ray) ==
    IF st.dragPoint = Undef THEN pose
    ELSE translate(pose, VSub(st.dragPoint, ray.origin))

\* the camera dragged also by a ray that meets the plane behind its origin
PANNING_move_line(pose, st, ray) ==
    IF st.dragPoint = Undef THEN pose
    ELSE LET hitpoint == intersect_line_plane(ray, Vec(0, 1, 0), st.dragPoint)
         IN  IF hitpoint = Undef THEN pose
             ELSE translate(pose, VSub(st.dragPoint, hitpoint))

\* the camera put where the ray hits the plane
PANNING_move_lands(pose, st, ray) ==
    IF st.dragPoint = Undef THEN pose
    ELSE LET hitpoint == intersect_ray_plane(ray, Vec(0, 1, 0), st.dragPoint)
         IN  IF hitpoint = Undef THEN pose
             ELSE translate(pose, VSub(hitpoint, pose.position))

PANNING_move(pose, st, ray) ==
    IF st.dragPoint = Undef THEN pose
    ELSE LET hitpoint == intersect_ray_plane(ray, Vec(0, 1, 0), st.dragPoint)
         IN  IF hitpoint = Undef THEN pose
             ELSE translate(pose, VSub(st.dragPoint, hitpoint))

\* rotated_dir.y > 0.05 && rotated_dir.y < 0.95, and the height test y > 5
ORBIT_move(pose, st, dx, dy) ==
    IF st.examinePoint = Undef THEN pose
    ELSE LET mx == fromAxisAngle(Vec(0, 1, 0), -dx)
             s == Scale(pose.orientation)
             my == fromAxisAngle(Unit(MatVec(MatMul(mx, pose.orientation), Vec(1, 0, 0)), s), -dy)
             q0 == MatMul(my, mx)
             tmp == MatMul(q0, pose.orientation)
             rotated_dir == MatVec(tmp, Vec(0, 0, 1))
             diff == VSub(pose.position, st.examinePoint)
             full == VAdd(st.examinePoint, MatVec(q0, diff))
             yawOnly == [pose EXCEPT !.orientation = MatMul(mx, pose.orientation),
                                     !.position = VAdd(st.examinePoint, MatVec(mx, diff))]
         IN  IF 100 * rotated_dir[2] > 5 * s /\ 100 * rotated_dir[2] < 95 * s
             THEN (IF full[2] > 5
                   THEN [pose EXCEPT !.orientation = tmp, !.position = full]
                   ELSE yawOnly)
             ELSE yawOnly

ActionMove(a, pose, st, opts, dx, dy, ray) ==
    CASE a = "TRANSLATE" -> TRANSLATE_move(pose, dx, dy)
      [] a = "DOLLY" -> DOLLY_move(pose, dy)
      [] a = "ROTATE" -> ROTATE_move(pose, st, dx, dy)
      [] a = "LOOKAROUND" -> LOOKAROUND_move(pose, opts, dx, dy)
      [] a = "PANNING" -> PANNING_move(pose, st, ray)
      [] a = "ORBIT" -> ORBIT_move(pose, st, dx, dy)

\* ------------------------------------------------------------ inputs
Point(x, y) == [x |-> x, y |-> y]
\* ev.pageX, ev.pageY of a mouse event
Points == {Point(x, y) : x \in 0..MaxCoord, y \in 0..MaxCoord}
\* ev.touches: the first touch is at one of TouchPoints, each further one rests at
\* OtherTouch
TouchPoints == {Point(0, 0), Point(MaxCoord, MaxCoord)}
OtherTouch == Point(0, MaxCoord)
TouchLists(least) ==
    {[i \in 1..n |-> IF i = 1 THEN p ELSE OtherTouch] : n \in least..MaxTouches, p \in TouchPoints}
Buttons == 0..MaxButton
\* the directions of the rays the host's generateRay returns, from the camera
RayDirs == {Vec(0, -1, 0), Vec(1, -1, 0), Vec(1, 0, 0), Vec(0, 1, 0)}
\* what the host answers to generateRay and getElementByRay in a start handler:
\* dir is the direction of the ray, t the distance along it at which the scene is
\* hit (NoHit when it is not): a ray down to the ground that hits nothing, one that
\* hits the scene, and a ray up that hits nothing
NoHit == 0
Cast(dir, t) == [dir |-> dir, t |-> t, fails |-> FALSE]
Casts == {Cast(Vec(0, -1, 0), NoHit), Cast(Vec(1, -1, 0), 1), Cast(Vec(0, 1, 0), NoHit)}
\* the rays generateRay returns in a move handler
RayCasts == {Cast(d, NoHit) : d \in RayDirs}
\* the handler does not call the host
NoCast == Cast(Vec(0, -1, 0), NoHit)
\* the host's generateRay throws
HostFails == [dir |-> Vec(0, -1, 0), t |-> NoHit, fails |-> TRUE]

\* ------------------------------------------------------------ state
VARIABLES
    mode,               \* this.mode, as the name of the entry of MODES
    options,            \* this.options: updateExaminePoint, dragging, upVector, useKeys
    action,             \* this.action
    prevPos,            \* this.prevPos
    prevTouchPositions, \* this.prevTouchPositions
    mousemovePicking,   \* this.mousemovePicking, the saved flag
    picking,            \* XML3D.options "renderer-mousemove-picking"
    position,           \* transformInterface.position
    orientation,        \* transformInterface.orientation
    state,              \* this.state: examinePoint, dragPoint
    last,               \* the last input event and the handler call it made
    initPicking,        \* picking as it was before the first event
    gesture,            \* the mouse gesture under way since the last mapped press
    ref,                \* the pointer position of the last event of the gesture under way
    nEvents,            \* the number of input events so far
    calc,               \* a function of the camera applied on its own: what was
                        \* applied, to what, and what it returned
    life                \* what the constructor, attach() and detach() have set up

engine == <<mode, options, action, prevPos, prevTouchPositions, mousemovePicking, picking>>
camera == <<position, orientation, state>>
observers == <<last, initPicking, gesture, ref, nEvents>>
vars == <<engine, camera, observers, calc, life>>

NoCall == [h |-> "none", act |-> NO_ACTION, x |-> 0, y |-> 0, dx |-> 0, dy |-> 0]
Call(h, a, x, y, dx, dy) == [h |-> h, act |-> a, x |-> x, y |-> y, dx |-> dx, dy |-> dy]
\* kind: the event; button: ev.button; touches: ev.touches; stopped: stopEvent was
\* called on a mouse event; began: the event made an action current; call: the
\* handler it called; threw: the call failed
\* dir: the direction of the ray the handler had the host generate, if it did;
\* sameRay: it is the direction of the ray the event before had generated
Event(kind, button, touches, stopped, began, call, threw) ==
    [kind |-> kind, button |-> button, touches |-> touches, stopped |-> stopped,
     began |-> began, call |-> call, threw |-> threw, dir |-> Undef, sameRay |-> FALSE,
     arg |-> <<>>]
Casting(event, cast) == [event EXCEPT !.dir = cast.dir, !.sameRay = (cast.dir = last.dir)]
NoButton == 0 - 1

\* phase: none, open (pressed, not released) or closed (released); p0: where the
\* press was; cur: where the last event of the gesture was; pick0: picking just
\* before the press; moves: the mouse moves since; calls: the move handler's
\* calls; sum: the sum of their (dx, dy); exact: each was the step from the event
\* before; failed: a handler of the gesture threw
NoGesture ==
    [phase |-> "none", p0 |-> Point(-1, -1), cur |-> Point(-1, -1), pick0 |-> TRUE,
     moves |-> 0, calls |-> 0, sum |-> Point(0, 0), exact |-> TRUE, failed |-> FALSE]
Pressed(p, pick, failed) ==
    [phase |-> "open", p0 |-> p, cur |-> p, pick0 |-> pick,
     moves |-> 0, calls |-> 0, sum |-> Point(0, 0), exact |-> TRUE, failed |-> failed]
Moved(g, p, called, dx, dy, threw) ==
    IF g.phase # "open" THEN NoGesture
    ELSE IF ~called THEN [g EXCEPT !.moves = @ + 1, !.cur = p]
    ELSE [g EXCEPT !.moves = @ + 1, !.calls = @ + 1, !.cur = p,
                   !.sum = Point(@.x + dx, @.y + dy),
                   !.exact = @ /\ dx = p.x - g.cur.x /\ dy = p.y - g.cur.y,
                   !.failed = @ \/ threw]
Released(g) == IF g.phase = "open" THEN [g EXCEPT !.phase = "closed"] ELSE NoGesture

InitPosition == Vec(0, 1, 2)

\* the options a camera is constructed with: opt.updateExaminePoint, opt.dragging,
\* opt.useKeys; Opts are those of a camera without key control
Opts == [updateExaminePoint : BOOLEAN, dragging : BOOLEAN, useKeys : {FALSE}]
LifeOpts == [updateExaminePoint : {FALSE}, dragging : {TRUE}, useKeys : BOOLEAN]

\* the elements a camera is constructed for: none, an element with no xml3d
\* ancestor, a view without a transform attribute and a view with one
Elements == {"null", "detached", "view", "transformed"}
\* the xml3d ancestor; Undefined stands for the throw when there is none
getXML3DForElement(element) == IF element = "detached" THEN Undefined ELSE "xml3d"
\* element.hasAttribute("transform")
hasTransform(element) == element = "transformed"

\* element: the element given; built: whether the constructor returned or threw;
\* listeners: the sets of listeners registered by attach() and not removed;
\* handle: whether the set this._evt_* refers to is registered; transforms: the
\* transform nodes created; detached: detach() has returned and attach() was not
\* called since
Life(element, built, listeners, handle, transforms) ==
    [element |-> element, built |-> built, listeners |-> listeners, handle |-> handle,
     transforms |-> transforms, detached |-> FALSE]

\* a constructor that sets up the transform and the listeners before it looks
\* for the xml3d ancestor
StandardCamera_eager(element) ==
    IF element = "null" THEN Life(element, "failed", 0, FALSE, 0)
    ELSE IF getXML3DForElement(element) = Undefined
         THEN Life(element, "failed", 1, TRUE, IF hasTransform(element) THEN 0 ELSE 1)
         ELSE Life(element, "ok", 1, TRUE, IF hasTransform(element) THEN 0 ELSE 1)

\* new XML3D.StandardCamera(element, opt): the throws, then the TransformInterface,
\* then attach()
StandardCamera(element) ==
    IF element = "null" THEN Life(element, "failed", 0, FALSE, 0)
    ELSE IF getXML3DForElement(element) = Undefined THEN Life(element, "failed", 0, FALSE, 0)
    ELSE Life(element, "ok", 1, TRUE, IF hasTransform(element) THEN 0 ELSE 1)

\* no function applied yet to the camera constructed with opt
NewCalc(opt) == [op |-> "new", opt |-> opt, in |-> <<>>, out |-> <<>>]
\* f applied to in returned out
Applied(f, in, out) == [calc EXCEPT !.op = f, !.in = in, !.out = out]
NoCalc == [op |-> "none", opt |-> <<>>, in |-> <<>>, out |-> <<>>]

\* new XML3D.StandardCamera(element, opt)
Constructed(element, opt) ==
    /\ life = StandardCamera(element)
    /\ mode \in ModeNames
    /\ options = [updateExaminePoint |-> opt.updateExaminePoint,
                  dragging |-> OptionsDragging(opt.dragging),
                  upVector |-> UpVector(Identity),
                  useKeys |-> opt.useKeys]
    /\ action = NO_ACTION
    /\ prevPos = Point(-1, -1)
    /\ prevTouchPositions = <<Point(-1, -1)>>
    /\ mousemovePicking = TRUE
    /\ picking \in BOOLEAN
    /\ position = InitPosition
    /\ orientation = Identity
    /\ state = [examinePoint |-> Vec(0, 0, 0), dragPoint |-> Undef]
    /\ last = Event("none", NoButton, <<>>, FALSE, FALSE, NoCall, FALSE)
    /\ initPicking = picking
    /\ gesture = NoGesture
    /\ ref = Point(-1, -1)
    /\ nEvents = 0

Init == \E opt \in Opts : Constructed("view", opt) /\ calc = NoCalc

\* this.xml3d.generateRay(x, y): a ray from the camera
Ray(dir) == [origin |-> position, direction |-> dir]
\* what xml3d.getElementByRay writes to hitpoint for the ray of cast: the point of
\* the ray at the distance of the hit, NaN when nothing is hit
HitPoint(cast) ==
    IF cast.t = NoHit THEN NaNVec ELSE VAdd(position, VScale(cast.dir, cast.t))

\* the start handler of a asks the host for a ray and a hit
CastsAtStart(a) == a = "PANNING" \/ (a \in {"ROTATE", "ORBIT"} /\ options.updateExaminePoint)
\* the move handler of the current action asks the host for a ray
CastsAtMove == action = "PANNING" /\ state.dragPoint # Undef

\* ------------------------------------------------------------ mouse events
\* cast is the host's answer to the start handler; when generateRay throws, the
\* handler ends there: the action is assigned, nothing after start.call runs
mousePressEvent(button, p, cast) ==
    LET a == At(MODES[mode].mouse, button) IN
    /\ action' = a
    /\ IF Idle(a)
       THEN /\ UNCHANGED <<prevPos, mousemovePicking, picking, state, ref>>
            /\ last' = Event("mousedown", button, <<>>, FALSE, FALSE, NoCall, FALSE)
            /\ gesture' = NoGesture
       ELSE IF cast.fails /\ CastsAtStart(a)
       THEN /\ UNCHANGED <<prevPos, mousemovePicking, picking, state>>
            /\ last' = Event("mousedown", button, <<>>, FALSE, TRUE,
                             Call("start", a, p.x, p.y, 0, 0), TRUE)
            /\ gesture' = Pressed(p, picking, TRUE)
            /\ ref' = p
       ELSE /\ state' = ActionStart(a, state, options, Ray(cast.dir), HitPoint(cast))
            /\ prevPos' = p
            /\ mousemovePicking' = picking
            /\ picking' = FALSE
            /\ \E e \in {Event("mousedown", button, <<>>, TRUE, TRUE,
                                IF HasStart(a) THEN Call("start", a, p.x, p.y, 0, 0)
                                ELSE NoCall,
                                FALSE)} :
                  last' = IF CastsAtStart(a) THEN Casting(e, cast) ELSE e
            /\ gesture' = Pressed(p, picking, FALSE)
            /\ ref' = p
    /\ UNCHANGED <<mode, options, prevTouchPositions, position, orientation>>

\* ev.pageX and ev.pageY go to the end handler alone, and no action has one
\* a release that writes the saved flag also when no action is current
mouseReleaseEvent_writes ==
    /\ picking' = mousemovePicking
    /\ action' = IF Idle(action) THEN action ELSE NO_ACTION
    /\ last' = Event("mouseup", NoButton, <<>>, ~Idle(action), FALSE, NoCall, FALSE)
    /\ gesture' = Released(gesture)
    /\ UNCHANGED <<mode, options, prevPos, prevTouchPositions, mousemovePicking,
                   position, orientation, state, ref>>

mouseReleaseEvent ==
    /\ IF Idle(action)
       THEN /\ UNCHANGED <<action, picking>>
            /\ last' = Event("mouseup", NoButton, <<>>, FALSE, FALSE, NoCall, FALSE)
       ELSE /\ picking' = mousemovePicking
            /\ action' = NO_ACTION
            /\ last' = Event("mouseup", NoButton, <<>>, TRUE, FALSE, NoCall, FALSE)
    /\ gesture' = Released(gesture)
    /\ UNCHANGED <<mode, options, prevPos, prevTouchPositions, mousemovePicking,
                   position, orientation, state, ref>>

\* the move handler of the current action, called with (dx, dy); cast is the host's
\* answer to generateRay in it
CallMove(dx, dy, cast) ==
    IF cast.fails /\ CastsAtMove
    THEN [position |-> position, orientation |-> orientation, threw |-> TRUE]
    ELSE ActionMove(action, Pose(position, orientation), state, options, dx, dy, Ray(cast.dir))

mouseMoveEvent(p, cast) ==
    /\ IF Idle(action)
       THEN /\ UNCHANGED <<prevPos, position, orientation, ref>>
            /\ last' = Event("mousemove", NoButton, <<>>, FALSE, FALSE, NoCall, FALSE)
            /\ gesture' = Moved(gesture, p, FALSE, 0, 0, FALSE)
       ELSE LET dx == p.x - prevPos.x
                dy == p.y - prevPos.y
            IN  \E res \in {CallMove(dx, dy, cast)} :
                /\ position' = res.position
                /\ orientation' = res.orientation
                /\ prevPos' = IF res.threw THEN prevPos ELSE p
                /\ \E e \in {Event("mousemove", NoButton, <<>>, ~res.threw, FALSE,
                                    Call("move", action, p.x, p.y, dx, dy), res.threw)} :
                      last' = IF CastsAtMove /\ ~cast.fails THEN Casting(e, cast) ELSE e
                /\ gesture' = Moved(gesture, p, TRUE, dx, dy, res.threw)
                /\ ref' = p
    /\ UNCHANGED <<mode, options, action, prevTouchPositions, mousemovePicking, picking,
                   state>>

\* ------------------------------------------------------------ touch events
\* stopEvent(event) on a touch event whose target is the xml3d element acts on the
\* event alone
touchStartEvent(touches, cast) ==
    LET a == At(MODES[mode].touch, Len(touches) - 1) IN
    /\ IF Idle(a)
       THEN /\ action' = NO_ACTION
            /\ UNCHANGED <<prevTouchPositions, state, ref>>
            /\ last' = Event("touchstart", NoButton, touches, FALSE, FALSE, NoCall, FALSE)
       ELSE IF cast.fails /\ CastsAtStart(a)
       THEN /\ action' = a
            /\ UNCHANGED <<prevTouchPositions, state>>
            /\ last' = Event("touchstart", NoButton, touches, FALSE, TRUE,
                             Call("start", a, touches[1].x, touches[1].y, 0, 0), TRUE)
            /\ ref' = touches[1]
       ELSE /\ action' = a
            /\ state' = ActionStart(a, state, options, Ray(cast.dir), HitPoint(cast))
            /\ prevTouchPositions' = touches
            /\ \E e \in {Event("touchstart", NoButton, touches, FALSE, TRUE,
                                IF HasStart(a)
                                THEN Call("start", a, touches[1].x, touches[1].y, 0, 0)
                                ELSE NoCall,
                                FALSE)} :
                  last' = IF CastsAtStart(a) THEN Casting(e, cast) ELSE e
            /\ ref' = touches[1]
    /\ gesture' = NoGesture
    /\ UNCHANGED <<mode, options, prevPos, mousemovePicking, picking, position, orientation>>

\* a touch cancel that leaves the current action as it is
touchEndEvent_cancelKeeps(kind, touches) ==
    /\ action' = IF Idle(action) \/ kind = "touchcancel" THEN action ELSE NO_ACTION
    /\ last' = Event(kind, NoButton, touches, FALSE, FALSE, NoCall, FALSE)
    /\ gesture' = NoGesture
    /\ UNCHANGED <<mode, options, prevPos, prevTouchPositions, mousemovePicking, picking,
                   position, orientation, state, ref>>

\* the listener of touchend and of touchcancel; no action has an end handler
touchEndEvent(kind, touches) ==
    /\ action' = IF Idle(action) THEN action ELSE NO_ACTION
    /\ last' = Event(kind, NoButton, touches, FALSE, FALSE, NoCall, FALSE)
    /\ gesture' = NoGesture
    /\ UNCHANGED <<mode, options, prevPos, prevTouchPositions, mousemovePicking, picking,
                   position, orientation, state, ref>>

touchMoveEvent(touches, cast) ==
    /\ IF Idle(action)
       THEN /\ UNCHANGED <<prevTouchPositions, position, orientation, ref>>
            /\ last' = Event("touchmove", NoButton, touches, FALSE, FALSE, NoCall, FALSE)
       ELSE LET dx == touches[1].x - prevTouchPositions[1].x
                dy == touches[1].y - prevTouchPositions[1].y
            IN  \E res \in {CallMove(dx, dy, cast)} :
                /\ position' = res.position
                /\ orientation' = res.orientation
                /\ prevTouchPositions' = IF res.threw THEN prevTouchPositions ELSE touches
                /\ \E e \in {Event("touchmove", NoButton, touches, FALSE, FALSE,
                                    Call("move", action, touches[1].x, touches[1].y, dx, dy),
                                    res.threw)} :
                      last' = IF CastsAtMove /\ ~cast.fails THEN Casting(e, cast) ELSE e
                /\ ref' = touches[1]
    /\ gesture' = NoGesture
    /\ UNCHANGED <<mode, options, action, prevPos, mousemovePicking, picking, state>>

\* ------------------------------------------------------------ specification
\* one more input event
Tick == nEvents < MaxEvents /\ nEvents' = nEvents + 1 /\ UNCHANGED <<initPicking, calc, life>>

MousePress ==
    \E b \in Buttons, p \in Points :
       \E c \in IF CastsAtStart(At(MODES[mode].mouse, b)) THEN Casts ELSE {NoCast} :
          Tick /\ mousePressEvent(b, p, c)
MouseRelease == Tick /\ mouseReleaseEvent
MouseMove ==
    \E p \in Points : \E c \in IF CastsAtMove THEN RayCasts ELSE {NoCast} :
       Tick /\ mouseMoveEvent(p, c)
TouchStart ==
    \E t \in TouchLists(1) :
       \E c \in IF CastsAtStart(At(MODES[mode].touch, Len(t) - 1)) THEN Casts ELSE {NoCast} :
          Tick /\ touchStartEvent(t, c)
TouchEnd == \E t \in TouchLists(0) : Tick /\ touchEndEvent("touchend", t)
TouchCancel == \E t \in TouchLists(0) : Tick /\ touchEndEvent("touchcancel", t)
TouchMove ==
    \E t \in TouchLists(1) : \E c \in IF CastsAtMove THEN RayCasts ELSE {NoCast} :
       Tick /\ touchMoveEvent(t, c)

Next ==
    \/ MousePress
    \/ MouseRelease
    \/ MouseMove
    \/ TouchStart
    \/ TouchEnd
    \/ TouchCancel
    \/ TouchMove

Spec == Init /\ [][Next]_vars

\* The same engine with a host whose generateRay may throw inside a handler.
MousePressHostFails ==
    \E b \in Buttons, p \in Points :
       /\ CastsAtStart(At(MODES[mode].mouse, b))
       /\ Tick /\ mousePressEvent(b, p, HostFails)
TouchStartHostFails ==
    \E t \in TouchLists(1) :
       /\ CastsAtStart(At(MODES[mode].touch, Len(t) - 1))
       /\ Tick /\ touchStartEvent(t, HostFails)
MouseMoveHostFails == \E p \in Points : CastsAtMove /\ Tick /\ mouseMoveEvent(p, HostFails)
TouchMoveHostFails ==
    \E t \in TouchLists(1) : CastsAtMove /\ Tick /\ touchMoveEvent(t, HostFails)

NextFail ==
    \/ Next
    \/ MousePressHostFails
    \/ TouchStartHostFails
    \/ MouseMoveHostFails
    \/ TouchMoveHostFails

SpecFail == Init /\ [][NextFail]_vars

\* ------------------------------------------------------------ construction and listeners
\* attach() is called at most this often without a detach() between
MaxListeners == 2

\* a call of the public interface, counted like an event
Step == nEvents < MaxEvents /\ nEvents' = nEvents + 1 /\ UNCHANGED <<initPicking, calc>>
Called(kind, arg) ==
    [Event(kind, NoButton, <<>>, FALSE, FALSE, NoCall, FALSE) EXCEPT !.arg = arg]

\* attach(): new closures are stored in this._evt_* and registered
attach ==
    /\ life' = [life EXCEPT !.listeners = @ + 1, !.handle = TRUE, !.detached = FALSE]
    /\ last' = Called("attach", <<>>)
    /\ UNCHANGED <<engine, camera, gesture, ref>>

\* detach(): the closures this._evt_* refers to are removed, if they are registered
detach ==
    /\ life' = [life EXCEPT !.listeners = IF life.handle THEN @ - 1 ELSE @,
                            !.handle = FALSE, !.detached = TRUE]
    /\ last' = Called("detach", <<>>)
    /\ UNCHANGED <<engine, camera, gesture, ref>>

\* the length of a vector whose length is a whole number
Length(v) == CHOOSE n \in 0..VDot(v, v) : n * n = VDot(v, v)
\* an element without getWorldBoundingBox
NoBox == Undef
\* the targets of examine(): NoBox, or the centre of the target's bounding box
Targets == {NoBox, Vec(0, 0, 0), Vec(3, 4, 0), Vec(0, 0, -2)}
\* 1 / Math.tan(fieldOfView / 2) for the fields of view the element may give
Cotangents == {1, 2}

\* an examine() that keeps the orientation of the camera
examine_keepsView(center, cot) ==
    /\ IF center = NoBox
       THEN UNCHANGED <<position, state>>
       ELSE /\ position' = VAdd(center, Vec(0, 0, Length(center) * cot))
            /\ state' = [state EXCEPT !.examinePoint = center]
    /\ last' = Called("examine", <<center, cot>>)
    /\ UNCHANGED <<engine, orientation, gesture, ref>>

\* examine(element): center is bb.center() of the element's bounding box
examine(center, cot) ==
    /\ IF center = NoBox
       THEN UNCHANGED <<position, orientation, state>>
       ELSE /\ position' = VAdd(center, Vec(0, 0, Length(center) * cot))
            /\ orientation' = Identity
            /\ state' = [state EXCEPT !.examinePoint = center]
    /\ last' = Called("examine", <<center, cot>>)
    /\ UNCHANGED <<engine, gesture, ref>>

\* options.moveSpeed = opt.moveSpeed || zoomSpeed * 0.05, with the default zoomSpeed
MoveSpeed == 1
\* key events: e.keyCode of the arrows, W, D, A, S and Enter, and e.which of
\* w, d, a, s and q for the events whose keyCode is 0
Keys ==
    {[keyCode |-> k, which |-> 0] : k \in {38, 87, 39, 68, 37, 65, 40, 83, 13}}
        \cup {[keyCode |-> 0, which |-> w] : w \in {119, 100, 97, 115, 113}}
KeyID(e) ==
    IF e.keyCode # 0 THEN e.keyCode
    ELSE CASE e.which = 119 -> 87
           [] e.which = 100 -> 68
           [] e.which = 97 -> 65
           [] e.which = 115 -> 83
           [] OTHER -> 0

\* a key handler in which A and the left arrow move to the right
keyHandling_right(e) ==
    /\ position' =
          CASE KeyID(e) \in {38, 87} -> VAdd(position, VScale(Direction(orientation), MoveSpeed))
            [] KeyID(e) \in {39, 68, 37, 65} ->
                  VAdd(position, VScale(RightVector(orientation), MoveSpeed))
            [] KeyID(e) \in {40, 83} ->
                  VAdd(position, VScale(VScale(Direction(orientation), -1), MoveSpeed))
            [] OTHER -> position
    /\ last' = [Called("keydown", e) EXCEPT !.stopped = TRUE]
    /\ UNCHANGED <<engine, orientation, state, gesture, ref>>

\* a key switch whose backward keys move along the right vector
keyMove_sideways(pose, e) ==
    LET dir == Direction(pose.orientation)
        right == RightVector(pose.orientation)
    IN  CASE KeyID(e) \in {38, 87} -> translate(pose, VScale(dir, MoveSpeed))
          [] KeyID(e) \in {39, 68} -> translate(pose, VScale(right, MoveSpeed))
          [] KeyID(e) \in {37, 65} -> translate(pose, VScale(VScale(right, -1), MoveSpeed))
          [] KeyID(e) \in {40, 83} -> translate(pose, VScale(VScale(right, -1), MoveSpeed))
          [] OTHER -> pose

\* the switch of keyHandling(e) and its translate(np.scale(moveSpeed))
keyMove(pose, e) ==
    LET dir == Direction(pose.orientation)
        right == RightVector(pose.orientation)
    IN  CASE KeyID(e) \in {38, 87} -> translate(pose, VScale(dir, MoveSpeed))
          [] KeyID(e) \in {39, 68} -> translate(pose, VScale(right, MoveSpeed))
          [] KeyID(e) \in {37, 65} -> translate(pose, VScale(VScale(right, -1), MoveSpeed))
          [] KeyID(e) \in {40, 83} -> translate(pose, VScale(VScale(dir, -1), MoveSpeed))
          [] OTHER -> pose

\* the switch-driven variant: zoomSpeed, and the step zoomSpeed * 0.05 of a key
ZoomSpeed == 20
KeyStep(d) == Quot(d * ZoomSpeed, 20)
\* the switch-driven variant: keyHandling(e) moves in the horizontal plane only
switchKeyMove(pose, e) ==
    LET dir == Direction(pose.orientation)
        np == pose.position
    IN  CASE KeyID(e) \in {38, 87} ->
                [pose EXCEPT !.position = Vec(np[1] + KeyStep(dir[1]), np[2], np[3] + KeyStep(dir[3]))]
          [] KeyID(e) \in {39, 68} ->
                [pose EXCEPT !.position = Vec(np[1] - KeyStep(dir[3]), np[2], np[3] + KeyStep(dir[1]))]
          [] KeyID(e) \in {37, 65} ->
                [pose EXCEPT !.position = Vec(np[1] + KeyStep(dir[3]), np[2], np[3] - KeyStep(dir[1]))]
          [] KeyID(e) \in {40, 83} ->
                [pose EXCEPT !.position = Vec(np[1] - KeyStep(dir[1]), np[2], np[3] - KeyStep(dir[3]))]
          [] OTHER -> pose

\* keyHandling(e)
keyHandling(e) ==
    /\ position' = keyMove(Pose(position, orientation), e).position
    /\ last' = [Called("keydown", e) EXCEPT !.stopped = TRUE]
    /\ UNCHANGED <<engine, orientation, state, gesture, ref>>

\* the camera as the constructor left it, for every element and key option
InitLife ==
    \E element \in Elements, opt \in LifeOpts :
        Constructed(element, opt) /\ mode = "examine" /\ calc = NoCalc

Attach == life.built = "ok" /\ life.listeners < MaxListeners /\ Step /\ attach
Detach == life.built = "ok" /\ Step /\ detach
Examine ==
    \E center \in Targets, cot \in Cotangents :
        life.built = "ok" /\ Tick /\ examine(center, cot)
\* an event reaches the handler of a registered set of listeners
Listening == life.built = "ok" /\ life.listeners > 0
\* a keydown on the document: attach() registers the key handler only with useKeys
KeyDown ==
    \E e \in Keys :
        /\ life.built = "ok" /\ Tick
        /\ IF Listening /\ options.useKeys
           THEN keyHandling(e)
           ELSE /\ last' = Called("keydown", e)
                /\ UNCHANGED <<engine, camera, gesture, ref>>

NextLife ==
    \/ Attach
    \/ Detach
    \/ Examine
    \/ KeyDown
    \/ Listening /\ MousePress
    \/ Listening /\ MouseRelease
    \/ Listening /\ MouseMove
    \/ Listening /\ TouchStart
    \/ Listening /\ TouchEnd
    \/ Listening /\ TouchCancel
    \/ Listening /\ TouchMove

SpecLife == InitLife /\ [][NextLife]_vars

\* ------------------------------------------------------------ functions applied alone
\* the coordinates of the rays, normals and plane points the functions are applied to
MaxCalc == 1
CalcCoords == (0 - MaxCalc)..MaxCalc
\* the height 5 is that of the worked examples
CalcOrigins == {Vec(x, y, 0) : x \in 0..MaxCalc, y \in CalcCoords \cup {5}}
CalcDirs == {Vec(x, y, z) : x \in CalcCoords, y \in CalcCoords, z \in CalcCoords}
CalcRays == [origin : CalcOrigins, direction : CalcDirs]
\* a / b is a whole number, so that Quot is the program's division
Exact(a, b) == IF b = 0 THEN TRUE ELSE a % Abs(b) = 0

\* the camera as constructed in the default mode, before any function is applied
InitCalc ==
    \E opt \in Opts : Constructed("view", opt) /\ mode = "examine" /\ calc = NewCalc(opt)

\* this.intersectScene(ray), the host's getElementByRay hitting at distance t
ApplyIntersectScene ==
    /\ calc.op = "new"
    /\ \E ray \in CalcRays, t \in {NoHit, 1} :
          /\ Exact(ray.origin[2], ray.direction[2])
          /\ \E hitpoint \in {IF t = NoHit THEN NaNVec
                                ELSE VAdd(ray.origin, VScale(ray.direction, t))} :
                calc' = Applied("intersectScene", [ray |-> ray, hitpoint |-> hitpoint],
                                intersectScene(ray, hitpoint, options.dragging))
    /\ UNCHANGED <<engine, camera, observers, life>>

\* the planes: their normals, and their points on the y axis
CalcNormals == {Vec(0, 1, 0), Vec(1, 0, 0), Vec(1, 1, 0), Vec(0, -1, 1)}
CalcPlanePoints == {Vec(0, y, 0) : y \in CalcCoords}

\* this.intersect_ray_plane(ray, plane_normal, plane_origin)
ApplyIntersectRayPlane ==
    /\ calc.op = "new"
    /\ \E ray \in CalcRays, n \in CalcNormals, p \in CalcPlanePoints :
          /\ Exact(VDot(VSub(p, ray.origin), n), VDot(ray.direction, n))
          /\ calc' = Applied("intersect_ray_plane", [ray |-> ray, n |-> n, p |-> p],
                             intersect_ray_plane(ray, n, p))
    /\ UNCHANGED <<engine, camera, observers, life>>

\* this.intersect_xz_plane(ray)
ApplyIntersectXZPlane ==
    /\ calc.op = "new"
    /\ \E ray \in CalcRays :
          /\ Exact(ray.origin[2], ray.direction[2])
          /\ calc' = Applied("intersect_xz_plane", [ray |-> ray], intersect_xz_plane(ray))
    /\ UNCHANGED <<engine, camera, observers, life>>

\* a camera that looks down on the examine point at the origin: the view tilted
\* about the x axis by the angle with cosine 4/5 and sine 3/5 (rows of length 5)
Tilt == <<Vec(5, 0, 0), Vec(0, 4, 3), Vec(0, -3, 4)>>
OrbitPoses ==
    {Pose(InitPosition, Identity), Pose(Vec(0, 3, 4), Tilt), Pose(Vec(0, 6, 8), Tilt)}

\* ORBIT.move(x, y, dx, dy) with the examine point at the origin
ApplyOrbitMove ==
    /\ calc.op = "new"
    /\ \E pose \in OrbitPoses, dx \in CalcCoords, dy \in CalcCoords :
          \E st \in {[examinePoint |-> Vec(0, 0, 0), dragPoint |-> Undef]} :
              calc' = Applied("ORBIT_move", [pose |-> pose, st |-> st, dx |-> dx, dy |-> dy],
                              ORBIT_move(pose, st, dx, dy))
    /\ UNCHANGED <<engine, camera, observers, life>>

\* the rotations by quarter turns about the axes: the 24 rotations of the cube
Rotations ==
    {MatMul(fromAxisAngle(Vec(0, 1, 0), a),
            MatMul(fromAxisAngle(Vec(1, 0, 0), b), fromAxisAngle(Vec(0, 0, 1), c))) :
        a \in 0..3, b \in 0..3, c \in 0..3}
RotatePoses ==
    {Pose(x, o) : x \in {InitPosition, Vec(1, 0, 0)},
                  o \in {Identity, fromAxisAngle(Vec(1, 0, 0), 1)}}
Pivots == {Vec(0, 0, 0), Vec(1, 1, 0)}

\* tf.rotateAroundPoint(q1, p0) and then tf.rotateAroundPoint(q2, p0), and
\* tf.rotateAroundPoint(q1.mul(q2), p0) from the same pose
ApplyRotateAroundPoint ==
    /\ calc.op = "new"
    /\ \E pose \in RotatePoses, q1 \in Rotations, q2 \in Rotations, p0 \in Pivots :
          \E first \in {rotateAroundPoint(pose, q1, p0)} :
              calc' = Applied("rotateAroundPoint",
                              [pose |-> pose, q1 |-> q1, q2 |-> q2, p0 |-> p0],
                              [first |-> first,
                               second |-> rotateAroundPoint(first, q2, p0),
                               once |-> rotateAroundPoint(pose, MatMul(q1, q2), p0)])
    /\ UNCHANGED <<engine, camera, observers, life>>

\* a lookAt that also moves the camera to the point
lookAt_moving(pose, point) == [pose EXCEPT !.position = point]

\* TransformInterface.lookAt(point), for a point straight along an axis from the
\* camera; XML3D.Quat.fromBasis gives the rotation with the columns X, Y, Z
lookAt(pose, point) ==
    LET diff == VSub(point, pose.position)
        dir == Unit(diff, Length(diff))
        cross == VCross(dir, Vec(0, 1, 0))
        basisX == IF cross = Vec(0, 0, 0) THEN MatVec(pose.orientation, Vec(1, 0, 0))
                  ELSE cross
        basisY == VCross(basisX, dir)
        basisZ == VScale(dir, -1)
    IN  [pose EXCEPT !.orientation = Transpose(<<basisX, basisY, basisZ>>)]

\* cameras that look level, at the start and turned a quarter about the up vector
LevelPoses ==
    {Pose(x, o) : x \in {InitPosition, Vec(1, 0, 0)},
                  o \in {Identity, fromAxisAngle(Vec(0, 1, 0), 1)}}
Axes == {Vec(1, 0, 0), Vec(0, 1, 0), Vec(0, 0, 1)}

\* translate(t0), rotate(q0), lookAround(rotSide, rotUp, upVector) and
\* lookAt(point) of the transform interface
ApplyPrimitive ==
    /\ calc.op = "new"
    /\ \E pose \in LevelPoses :
          \/ \E t0 \in CalcDirs :
                calc' = Applied("translate", [pose |-> pose, arg |-> t0], translate(pose, t0))
          \/ \E q0 \in Rotations :
                calc' = Applied("rotate", [pose |-> pose, arg |-> q0], rotate(pose, q0))
          \/ \E a \in CalcCoords, b \in CalcCoords :
                calc' = Applied("lookAround", [pose |-> pose, arg |-> <<a, b>>],
                                lookAround(pose, fromAxisAngle(Vec(0, 1, 0), a),
                                           fromAxisAngle(RightVector(pose.orientation), b),
                                           Vec(0, 1, 0)))
          \/ \E e \in Axes, k \in (CalcCoords \cup {2}) \ {0} :
                \E point \in {VAdd(pose.position, VScale(e, k))} :
                   calc' = Applied("lookAt", [pose |-> pose, arg |-> point], lookAt(pose, point))
    /\ UNCHANGED <<engine, camera, observers, life>>

\* the move handler of each action, with the examine point and the drag point at
\* the origin
ApplyMove ==
    /\ calc.op = "new"
    /\ \E pose \in LevelPoses, a \in Actions, dx \in CalcCoords, dy \in CalcCoords,
          dir \in RayDirs :
          \E st \in {[examinePoint |-> Vec(0, 0, 0), dragPoint |-> Vec(0, 0, 0)]} :
             calc' = Applied("move", [pose |-> pose, act |-> a, dx |-> dx, dy |-> dy, dir |-> dir],
                             ActionMove(a, pose, st, options, dx, dy,
                                        [origin |-> pose.position, direction |-> dir]))
    /\ UNCHANGED <<engine, camera, observers, life>>

\* the switch-driven variant: this.NO_MOUSE_ACTION
NO_MOUSE_ACTION == "no_action"
\* a switch whose middle button always translates
switchPress_translates(m, button) ==
    CASE button = 0 -> (IF m = "examine" THEN "ROTATE"
                        ELSE IF m = "panning" THEN "PANNING" ELSE "LOOKAROUND")
      [] button = 1 -> "TRANSLATE"
      [] button = 2 -> (IF m = "panning" THEN "ORBIT" ELSE "DOLLY")
      [] OTHER -> NO_MOUSE_ACTION

\* the switch-driven variant: the action mousePressEvent sets for ev.button in
\* the mode m
switchPress(m, button) ==
    CASE button = 0 -> (IF m = "examine" THEN "ROTATE"
                        ELSE IF m = "panning" THEN "PANNING" ELSE "LOOKAROUND")
      [] button = 1 -> (IF m = "panning" THEN "DOLLY" ELSE "TRANSLATE")
      [] button = 2 -> (IF m = "panning" THEN "ORBIT" ELSE "DOLLY")
      [] OTHER -> NO_MOUSE_ACTION

\* the action a mouse press selects in either variant
ApplyMousePress ==
    /\ calc.op = "new"
    /\ \E m \in ModeNames, button \in Buttons :
          calc' = Applied("mousePressEvent", [mode |-> m, button |-> button],
                          [table |-> At(MODES[m].mouse, button),
                           switch |-> switchPress(m, button)])
    /\ UNCHANGED <<engine, camera, observers, life>>

\* cameras that look ahead, to the side, down, and to the side and down
KeyPoses ==
    {Pose(x, o) : x \in {InitPosition, Vec(1, 0, 0)},
                  o \in {Identity, fromAxisAngle(Vec(0, 1, 0), 1), fromAxisAngle(Vec(1, 0, 0), 3),
                         MatMul(fromAxisAngle(Vec(0, 1, 0), 1), fromAxisAngle(Vec(1, 0, 0), 3))}}

\* keyHandling(e1) and then keyHandling(e2), and the two in the other order,
\* from the same pose, in either variant
ApplyKeys ==
    /\ calc.op = "new"
    /\ \E pose \in KeyPoses, e1 \in Keys, e2 \in Keys :
          calc' = Applied("keyHandling", [pose |-> pose, e1 |-> e1, e2 |-> e2],
                          [table |-> [then |-> keyMove(keyMove(pose, e1), e2),
                                      swapped |-> keyMove(keyMove(pose, e2), e1)],
                           switch |-> [then |-> switchKeyMove(switchKeyMove(pose, e1), e2),
                                       swapped |-> switchKeyMove(switchKeyMove(pose, e2), e1)]])
    /\ UNCHANGED <<engine, camera, observers, life>>

NextCalc ==
    \/ ApplyIntersectScene
    \/ ApplyIntersectRayPlane
    \/ ApplyIntersectXZPlane
    \/ ApplyOrbitMove
    \/ ApplyRotateAroundPoint
    \/ ApplyPrimitive
    \/ ApplyMove
    \/ ApplyMousePress
    \/ ApplyKeys

SpecCalc == InitCalc /\ [][NextCalc]_vars

\* ------------------------------------------------------------ properties
\* C1: once the engine is Idle, the pick-on-hover flag has the value it had before
\* the first event, whatever events were delivered in between.
C1_FlagRestoredWhenIdle == Idle(action) => picking = initPicking

\* C2: in a mouse gesture of a mapped press, k moves and a release with nothing
\* interleaved, the move handler is called once per move, each call gets the step
\* from the event before, the steps sum to the way from the press to the last
\* move, and after the release the engine is Idle with the flag as it was just
\* before the press.
C2_WellFormedGesture ==
    /\ gesture.phase # "none" =>
          /\ gesture.calls = gesture.moves
          /\ gesture.exact
          /\ gesture.sum = Point(gesture.cur.x - gesture.p0.x, gesture.cur.y - gesture.p0.y)
    /\ gesture.phase = "closed" => Idle(action) /\ picking = gesture.pick0

\* C3: whenever an action is current, begun by a mouse press or by a touch start,
\* the pick-on-hover flag is false.
C3_PickingOffWhileActive == ~Idle(action) => picking = FALSE

\* C4: when a handler of a mouse gesture threw, then after the release the flag has
\* the value it had just before the press and the engine is Idle.
C4_ExceptionSafe ==
    gesture.phase = "closed" /\ gesture.failed => picking = gesture.pick0 /\ Idle(action)

\* C5: a gesture begins only when no action is current, so that two presses with no
\* release between them do not start two gestures, and a move handler is called
\* only while an action is current.
C5_Lifecycle ==
    [][/\ last'.began => Idle(action)
       /\ last'.call.h = "move" => ~Idle(action)]_vars

\* C6: the (dx, dy) a move handler gets is the step from the pointer position of
\* the event before it in the same gesture.
C6_DeltaWithinGesture ==
    [][last'.call.h = "move" =>
          /\ last'.call.dx = last'.call.x - ref.x
          /\ last'.call.dy = last'.call.y - ref.y]_vars

\* C7: the current action stops being current only at a mouse release, a touch end,
\* a touch cancel or a touch start, and a mouse press while an action is current
\* leaves that action current.
C7_EndsOnlyOnRelease ==
    [][~Idle(action) =>
          /\ Idle(action') => last'.kind \in {"mouseup", "touchend", "touchcancel", "touchstart"}
          /\ last'.kind = "mousedown" => action' = action]_vars

\* C8: every table has three entries, each an action or NO_ACTION; a mouse press
\* whose button has no action and a touch start whose touch count has no action,
\* received while Idle, call no handler, leave the engine Idle and the pose, the
\* position snapshots and the flag as they were, and the press is not stopped.
TablesWellFormed ==
    \A m \in ModeNames : \A t \in {MODES[m].mouse, MODES[m].touch} :
       Len(t) = 3 /\ \A i \in 1..3 : t[i] \in Actions \cup {NO_ACTION}
NoSlot(table, i) == i \notin 0..2 \/ table[i + 1] = NO_ACTION
C8_UnmappedInertWhenIdle ==
    [][/\ TablesWellFormed
       /\ /\ Idle(action)
          /\ \/ last'.kind = "mousedown" /\ NoSlot(MODES[mode].mouse, last'.button)
             \/ last'.kind = "touchstart" /\ NoSlot(MODES[mode].touch, Len(last'.touches) - 1)
          => /\ last'.call = NoCall
             /\ Idle(action')
             /\ UNCHANGED <<position, orientation, prevPos, prevTouchPositions, picking>>
             /\ ~last'.stopped]_vars
\* the first event is a press of a button beyond the table
C8_Witness == nEvents = 1 /\ last.kind = "mousedown" /\ last.button \notin 0..2

\* C9: after a touch start and after a touch end, the current action is the entry
\* of the touch table for the number of touches of the event.
SameAction(a, b) == a = b \/ (Idle(a) /\ Idle(b))
C9_ActionFollowsTouchCount ==
    last.kind \in {"touchstart", "touchend"} =>
       SameAction(action, At(MODES[mode].touch, Len(last.touches) - 1))

\* C10: after a touch start and after a touch end, prevTouchPositions is the touch
\* list of the event.
C10_SnapshotIsTouchList ==
    last.kind \in {"touchstart", "touchend"} => prevTouchPositions = last.touches

\* C11: a touch cancel leaves the engine Idle, and the engine and the camera are
\* in the state a touch end with the same touch list would have left them in.
C11_CancelIsEnd ==
    [][last'.kind = "touchcancel" =>
          /\ Idle(action')
          /\ \E t \in {last'.touches}, after \in {<<engine', camera'>>} :
                ENABLED (/\ Tick /\ touchEndEvent("touchend", t)
                         /\ <<engine', camera'>> = after)]_vars
\* a touch cancel has ended the action a touch start began
C11_Witness ==
    /\ last.kind = "touchcancel" /\ nEvents = 2 /\ action = NO_ACTION
    /\ prevTouchPositions # <<Point(-1, -1)>>

\* C12: a move that fails leaves the position and the orientation as they were.
C12_PoseAtomic ==
    [][last'.call.h = "move" /\ last'.threw =>
          position' = position /\ orientation' = orientation]_vars

\* C13: dragPoint is undefined whenever neither PANNING nor ORBIT is the current
\* action.
C13_DragPointScoped == action \notin {"PANNING", "ORBIT"} => state.dragPoint = Undef

C15_SceneOrGround ==
    calc.op = "intersectScene" =>
        calc.out = IF calc.opt.dragging /\ calc.in.hitpoint # NaNVec
                   THEN calc.in.hitpoint
                   ELSE intersect_xz_plane(calc.in.ray)

\* C16: for ray (o, d), plane normal n and plane point p, intersect_ray_plane
\* returns o when d.n = 0 and (p-o).n = 0, nothing when d.n = 0 and (p-o).n # 0,
\* nothing when t = (p-o).n / d.n < 0, and o + t*d otherwise; every point q it
\* returns satisfies (q-p).n = 0. From o = (0,5,0), d = (0,-1,0) meets the plane
\* y = 0 in (0,0,0), d = (0,1,0) does not meet it, and a ray with o.y = 0 and
\* d.y = 0 returns o.
C16_RayPlane ==
    calc.op = "intersect_ray_plane" =>
        LET o == calc.in.ray.origin
            d == calc.in.ray.direction
            n == calc.in.n
            p == calc.in.p
            q == calc.out
            dn == VDot(d, n)
            pn == VDot(VSub(p, o), n)
        IN  /\ dn = 0 /\ pn = 0 => q = o
            /\ dn = 0 /\ pn # 0 => q = Undef
            /\ dn # 0 /\ pn * dn < 0 => q = Undef
            /\ dn # 0 /\ pn * dn >= 0 =>
                  q # Undef /\ VScale(q, dn) = VAdd(VScale(o, dn), VScale(d, pn))
            /\ q # Undef => VDot(VSub(q, p), n) = 0
            /\ n = Vec(0, 1, 0) /\ p = Vec(0, 0, 0) =>
                  /\ o = Vec(0, 5, 0) /\ d = Vec(0, -1, 0) => q = Vec(0, 0, 0)
                  /\ o[2] = 5 /\ d = Vec(0, 1, 0) => q = Undef
                  /\ o[2] = 0 /\ d[2] = 0 => q = o
C16_Witness ==
    /\ calc.op = "intersect_ray_plane"
    /\ calc.in = [ray |-> [origin |-> Vec(0, 5, 0), direction |-> Vec(0, -1, 0)],
                  n |-> Vec(0, 1, 0), p |-> Vec(0, 0, 0)]
    /\ calc.out = Vec(0, 0, 0)

\* C17: for every ray, intersect_xz_plane returns what intersect_ray_plane returns
\* for the normal (0,1,0) and the plane point (0,0,0): the same point, or no
\* intersection in the same cases, also for a ray that starts below the plane and
\* points up and for one that starts on the plane and is not horizontal.
C17_FastPathIsGeneral ==
    calc.op = "intersect_xz_plane" =>
        calc.out = intersect_ray_plane(calc.in.ray, Vec(0, 1, 0), Vec(0, 0, 0))

\* C18: an Orbit move turns the camera about the examine point by yaw and pitch
\* exactly when the z axis of the view that would result has a vertical
\* component strictly between 0.05 and 0.95, and by the yaw alone otherwise;
\* the height of the resulting camera position does not decide.
C18_PoleGuardOnly ==
    calc.op = "ORBIT_move" =>
        LET pose == calc.in.pose
            E == calc.in.st.examinePoint
            s == Scale(pose.orientation)
            yaw == fromAxisAngle(Vec(0, 1, 0), -calc.in.dx)
            pitch == fromAxisAngle(Unit(RightVector(MatMul(yaw, pose.orientation)), s),
                                   -calc.in.dy)
            both == MatMul(pitch, yaw)
            y == MatVec(MatMul(both, pose.orientation), Vec(0, 0, 1))[2]
            q == IF 100 * y > 5 * s /\ 100 * y < 95 * s THEN both ELSE yaw
        IN  /\ calc.out.orientation = MatMul(q, pose.orientation)
            /\ calc.out.position = VAdd(E, MatVec(q, VSub(pose.position, E)))

\* C19: a LookAround move applies the vertical rotation only if that rotation
\* alone leaves |up . forward| <= 0.95, and always applies the horizontal one; a
\* view with |up . forward| <= 0.95 before the move has |up . forward| <= 0.95
\* after it.
C19_GimbalGuard ==
    [][/\ last'.call.h = "move" /\ last'.call.act = "LOOKAROUND"
       /\ 100 * Abs(VDot(options.upVector, Direction(orientation))) <= 95
       => LET up == options.upVector
              side == fromAxisAngle(up, -last'.call.dx)
              vertical == fromAxisAngle(VCross(up, Direction(orientation)), last'.call.dy)
              alone == Direction(MatMul(vertical, orientation))
              applied == IF 100 * Abs(VDot(up, alone)) <= 95
                         THEN MatMul(side, vertical) ELSE side
          IN  /\ orientation' = MatMul(applied, orientation)
              /\ 100 * Abs(VDot(up, Direction(orientation'))) <= 95]_vars
\* a LookAround move by a quarter turn up and a quarter turn aside has turned the
\* view aside only
C19_Witness ==
    /\ last.call.h = "move" /\ last.call.act = "LOOKAROUND"
    /\ last.call.dx = 1 /\ last.call.dy = 1
    /\ orientation = fromAxisAngle(Vec(0, 1, 0), -1)

\* the squared distance of a from b
SqrDist(a, b) == VDot(VSub(a, b), VSub(a, b))

\* C20: rotateAroundPoint(q1, pivot) followed by rotateAroundPoint(q2, pivot)
\* gives the position and the orientation of the one call with the composed
\* rotation q1.mul(q2) about the same pivot, and no call changes the distance
\* of the position from the pivot.
C20_RotationsCompose ==
    calc.op = "rotateAroundPoint" =>
        /\ calc.out.second.position = calc.out.once.position
        /\ calc.out.second.orientation = calc.out.once.orientation
        /\ \A after \in {calc.out.first, calc.out.second, calc.out.once} :
              SqrDist(after.position, calc.in.p0) = SqrDist(calc.in.pose.position, calc.in.p0)
\* two rotations that do not commute have moved the camera
C20_Witness ==
    /\ calc.op = "rotateAroundPoint"
    /\ MatMul(calc.in.q1, calc.in.q2) # MatMul(calc.in.q2, calc.in.q1)
    /\ calc.out.first.position # calc.in.pose.position
    /\ calc.out.second.position # calc.out.first.position
    /\ calc.out.second.position = calc.out.once.position

\* C21: when the constructor fails because the element is missing or has no
\* xml3d ancestor, no listener is registered, no transform node was created and
\* the picking flag is as it was.
C21_NoPartialConstruction ==
    life.built = "failed" =>
        /\ life.listeners = 0 /\ ~life.handle
        /\ life.transforms = 0
        /\ picking = initPicking
\* construction failed for an element that could have got a transform node
C21_Witness == life.built = "failed" /\ life.element = "detached"

C23_DetachStops ==
    [][life.detached /\ life' = life => UNCHANGED <<engine, camera>>]_vars

\* C25: the examine point is a defined point in every reachable state, whatever
\* updateExaminePoint is and whether or not the ray casts hit the scene or the
\* ground.
C25_ExaminePointDefined == state.examinePoint # Undef

\* C26: with updateExaminePoint false no event changes the examine point, only
\* examine() does; with updateExaminePoint true an event changes it only when it
\* starts a Rotate or an Orbit gesture, never in a move or at the end of one.
C26_ExaminePointFrame ==
    [][state'.examinePoint # state.examinePoint =>
          \/ last'.kind = "examine"
          \/ /\ options.updateExaminePoint
             /\ last'.call.h = "start" /\ last'.call.act \in {"ROTATE", "ORBIT"}]_vars
\* a Rotate gesture started with a new examine point, moved and ended
C26_Witness ==
    /\ options.updateExaminePoint
    /\ state.examinePoint # Vec(0, 0, 0) /\ state.examinePoint # Undef
    /\ gesture.phase = "closed" /\ gesture.calls > 0
    /\ orientation # Identity

C28_FirstTouchDrives ==
    [][/\ last'.kind = "touchstart" /\ last'.call.h = "start" =>
             last'.call.x = last'.touches[1].x /\ last'.call.y = last'.touches[1].y
       /\ last'.kind = "touchmove" /\ last'.call.h = "move" =>
             /\ last'.call.dx = last'.touches[1].x - prevTouchPositions[1].x
             /\ last'.call.dy = last'.touches[1].y - prevTouchPositions[1].y
             /\ prevTouchPositions' = last'.touches]_vars

C30_Frames ==
    /\ calc.op = "translate" => calc.out.orientation = calc.in.pose.orientation
    /\ calc.op \in {"rotate", "lookAround", "lookAt"} =>
          calc.out.position = calc.in.pose.position
    /\ calc.op = "move" /\ calc.in.act \in {"TRANSLATE", "DOLLY", "PANNING"} =>
          calc.out.orientation = calc.in.pose.orientation
    /\ calc.op = "move" /\ calc.in.act = "LOOKAROUND" =>
          calc.out.position = calc.in.pose.position
\* lookAt has turned a camera that looked along -z to look along +x
C30_Witness ==
    /\ calc.op = "lookAt"
    /\ calc.in.pose.orientation = Identity
    /\ Direction(calc.out.orientation) = Vec(1, 0, 0)
    /\ calc.out.position = calc.in.pose.position

\* C31: no move of a Panning gesture changes the height of the camera: the
\* translation dragPoint - hit is horizontal, the hit lying in the horizontal
\* plane through the drag point.
C31_PanningKeepsHeight ==
    [][last'.call.h = "move" /\ last'.call.act = "PANNING" =>
          position'[2] = position[2]]_vars
\* two moves of a Panning gesture have dragged the camera along the ground
C31_Witness ==
    /\ last.call.h = "move" /\ last.call.act = "PANNING"
    /\ gesture.calls = 2
    /\ position # InitPosition
    /\ position[2] = InitPosition[2]
    /\ last.dir = Vec(1, -1, 0)

\* C32: every mode has no action for two and for three touches; a touch start
\* with two or more touches leaves the engine Idle, calls no handler and leaves
\* the touch snapshot as it is, also during a one-finger gesture; a touch move
\* received while Idle changes nothing, and the engine leaves Idle only by a
\* touch start with one touch or by a mouse press.
C32_MultiTouchDrops ==
    [][/\ \A m \in ModeNames : MODES[m].touch[2] = NO_ACTION /\ MODES[m].touch[3] = NO_ACTION
       /\ last'.kind = "touchstart" /\ Len(last'.touches) >= 2 =>
             /\ Idle(action')
             /\ last'.call = NoCall
             /\ UNCHANGED <<prevTouchPositions, camera>>
       /\ last'.kind = "touchmove" /\ Idle(action) =>
             UNCHANGED <<action, prevTouchPositions, prevPos, picking, camera>>
       /\ Idle(action) /\ ~Idle(action') =>
             \/ last'.kind = "touchstart" /\ Len(last'.touches) = 1
             \/ last'.kind = "mousedown"]_vars
\* a second finger has come down during a one-finger gesture
C32_Witness ==
    /\ nEvents = 2
    /\ last.kind = "touchstart" /\ Len(last.touches) = 2
    /\ action = NO_ACTION
    /\ Len(prevTouchPositions) = 1 /\ prevTouchPositions # <<Point(-1, -1)>>
    /\ prevTouchPositions[1] # last.touches[1]

\* C33: for every mode and every button 0..2 the table-driven engine and the
\* switch-driven variant select the same action, Rotate, Translate, Dolly in
\* examine mode, Panning, Dolly, Orbit in panning mode and LookAround,
\* Translate, Dolly in lookaround mode; for any other button both are left
\* without an action.
C33_SameClassification ==
    calc.op = "mousePressEvent" =>
        LET expected == [examine |-> <<"ROTATE", "TRANSLATE", "DOLLY">>,
                         panning |-> <<"PANNING", "DOLLY", "ORBIT">>,
                         lookaround |-> <<"LOOKAROUND", "TRANSLATE", "DOLLY">>]
        IN  IF calc.in.button \in 0..2
            THEN /\ calc.out.table = calc.out.switch
                 /\ calc.out.table = expected[calc.in.mode][calc.in.button + 1]
            ELSE Idle(calc.out.table) /\ calc.out.switch = NO_MOUSE_ACTION
\* the middle button in panning mode dollies in both variants
C33_Witness ==
    /\ calc.op = "mousePressEvent"
    /\ calc.in = [mode |-> "panning", button |-> 1]
    /\ calc.out = [table |-> "DOLLY", switch |-> "DOLLY"]

\* C34: with the orientation unchanged, a forward key followed by a backward
\* key, a left key followed by a right key, and either pair in the other
\* order, return the position to its original value, and the position after
\* two key presses does not depend on their order; in both variants.
C34_KeysInvertible ==
    calc.op = "keyHandling" =>
        LET k1 == KeyID(calc.in.e1)
            k2 == KeyID(calc.in.e2)
            opposite == \/ k1 \in {38, 87} /\ k2 \in {40, 83}
                        \/ k1 \in {40, 83} /\ k2 \in {38, 87}
                        \/ k1 \in {37, 65} /\ k2 \in {39, 68}
                        \/ k1 \in {39, 68} /\ k2 \in {37, 65}
        IN  \A v \in {calc.out.table, calc.out.switch} :
                /\ v.then.orientation = calc.in.pose.orientation
                /\ opposite => v.then.position = calc.in.pose.position
                /\ v.then.position = v.swapped.position
\* W and then the down arrow, with the camera turned to the side, and the
\* first key has moved the camera
C34_Witness ==
    /\ calc.op = "keyHandling"
    /\ calc.in.e1 = [keyCode |-> 0, which |-> 119]
    /\ calc.in.e2 = [keyCode |-> 40, which |-> 0]
    /\ calc.in.pose.orientation = fromAxisAngle(Vec(0, 1, 0), 1)
    /\ keyMove(calc.in.pose, calc.in.e1).position # calc.in.pose.position
    /\ calc.out.table.then.position = calc.in.pose.position
    /\ calc.out.switch.then.position = calc.in.pose.position
====
